---- MODULE Spec2Model ----
(***************************************************************************)
(* squashctl: resolution of the debug target and the attachment            *)
(* orchestration of the base command (pkg/squashctl/app.go).               *)
(*                                                                         *)
(* One run of runBaseCommand is modelled as a sequential program whose     *)
(* position is pc.  Every call that leaves the process (cluster listings,  *)
(* survey prompts, the port probes, the attach collaborators) is an input  *)
(* drawn from a small set in the step that makes the call, and is logged   *)
(* in calls.  The debug-session pods of the target namespace change        *)
(* concurrently with the run (the agent and other sessions).               *)
(***************************************************************************)
EXTENDS Integers, Sequences, FiniteSets, TLC

VARIABLES
    Squash,       \* o.Squash: the options the run reads and fills in
    secureMode,   \* o.Config.secureMode
    flags,        \* o.Squash as applySquashFlags left it, before resolution
    offered,      \* the candidate list of each selection that has run, by field
    DebugTarget,  \* o.DebugTarget: the listed pod and container objects
    pc,           \* position of the run
    result,       \* "running", "ok" or the returned error's message
    calls,        \* the calls made so far that leave the process, in order
    last,         \* locals of the step that ran last (listing, candidates, answer)
    initialPods,  \* runBaseCommandWithRbac's initialPods
    attachErr,    \* runBaseCommandWithRbac's err after uc.Attach
    createdPod,   \* runBaseCommandWithRbac's createdPod
    currentPods,  \* getCreatedPod's currentPods
    debugPods,    \* cluster: debug-session pods of the target namespace
    intent        \* cluster: the DebugAttachments this run has submitted

vars == <<Squash, secureMode, flags, offered, DebugTarget, pc, result, calls, last,
          initialPods, attachErr, createdPod, currentPods, debugPods, intent>>

(***************************************************************************)
(* Bounds and input universes                                              *)
(***************************************************************************)
\* debug-session pods of other sessions that may exist in the namespace
MaxOtherPods == 1

\* the zero values of a pod, a container and a debug-session pod
NoPod == [name |-> "", containers |-> <<>>]
NoContainer == [name |-> "", image |-> ""]
NoDebugPod == <<"", 0>>

\* the namespaces a cluster may hold, in the order a listing returns them
NsUniverse == <<"kube-system", "ns1", "ns2", "squash">>

AppContainer     == [name |-> "app",     image |-> "app:v1"]
WorkerContainer  == [name |-> "worker",  image |-> "app-worker:v1"]
SidecarContainer == [name |-> "sidecar", image |-> "envoy:v1"]
ContainerLists == { <<>>, <<AppContainer>>, <<SidecarContainer>>,
                    <<AppContainer, WorkerContainer>> }
PodNames == <<"p1", "p2">>

ApiError == "cluster api error"
BoundPortError == "port is bound"
NoFreePortError == "no free port"
PromptError == "interrupt"

\* the flag values a run may start from (applySquashFlags)
NamespaceFlags == {"", "ns1"}
PodFlags       == {"", "p1"}
ContainerFlags == {"", "app"}
DebuggerFlags  == {"", "dlv"}
LocalPortFlags == {0, 8080}
FreePorts      == {40000}

AvailableDebuggers == <<"dlv", "gdb">>
SquashLabelSelectorString == "squash=debug-session"

\* the subsequence of s at the indices in I
RECURSIVE Pick(_, _, _)
Pick(s, I, i) ==
    IF i > Len(s) THEN <<>>
    ELSE (IF i \in I THEN <<s[i]>> ELSE <<>>) \o Pick(s, I, i + 1)

Range(s) == { s[i] : i \in DOMAIN s }

\* what Namespaces().List may return
NamespaceListings == { Pick(NsUniverse, I, 1) : I \in SUBSET (DOMAIN NsUniverse) }

\* what Pods(ns).List may return: pods with distinct names
PodListings ==
    UNION { { [i \in 1..Len(names) |-> [name |-> names[i], containers |-> cl[i]]]
              : cl \in [1..Len(names) -> ContainerLists] }
            : names \in { Pick(PodNames, I, 1) : I \in SUBSET (DOMAIN PodNames) } }

\* debug-session pods: the one the agent creates for this run's intent, and others
AgentPod == <<"agent", 0>>
OtherPods == { <<"other", i>> : i \in 1..MaxOtherPods }
\* the pods of the namespace that carry no debug-session label (the workload)
WorkloadPods == { <<"workload", 0>> }

(***************************************************************************)
(* Helpers                                                                 *)
(***************************************************************************)
\* strings.HasPrefix
HasPrefix(s, prefix) ==
    /\ Len(s) >= Len(prefix)
    /\ SubSeq(s, 1, Len(prefix)) = prefix

\* errors.Wrap
Wrap(err, msg) == msg \o ": " \o err

Call(op, arg) == [op |-> op, arg |-> arg]

Fail(err) ==
    /\ result' = err
    /\ pc' = "done"

\* offered, with the candidate list of one more selection
Offer(field, names) ==
    [f \in DOMAIN offered \cup {field} |-> IF f = field THEN names ELSE offered[f]]

\* o.detectLang
detectLang(o) == IF o.ChooseDebugger THEN "" ELSE ""

\* what survey.AskOne may do with a Select over options: fail, or deliver one of them
SelectOutcomes(options) ==
    { [err |-> PromptError, choice |-> ""] }
        \cup { [err |-> "", choice |-> options[i]] : i \in DOMAIN options }

Init ==
    /\ Squash \in [Namespace : NamespaceFlags, Pod : PodFlags,
                   Container : ContainerFlags, Debugger : DebuggerFlags,
                   LocalPort : LocalPortFlags, Machine : BOOLEAN,
                   ChoosePod : BOOLEAN, ChooseDebugger : BOOLEAN]
    /\ secureMode \in BOOLEAN
    /\ flags = Squash
    /\ offered = [field \in {} |-> <<>>]
    /\ DebugTarget = [Pod |-> NoPod, Container |-> NoContainer]
    /\ pc = "chooseDebugger"
    /\ result = "running"
    /\ calls = <<>>
    /\ last = [op |-> "init"]
    /\ initialPods = {}
    /\ attachErr = ""
    /\ createdPod = NoDebugPod
    /\ currentPods = {}
    /\ debugPods = {}
    /\ intent = {}

(***************************************************************************)
(* Target resolution: ensureMinimumSquashConfig                            *)
(***************************************************************************)
\* chooseDebugger without its early return for a debugger that is set
debuggerSet_Never(o) == FALSE

\* chooseDebugger's test for a debugger that is already set
debuggerSet(o) == o.Debugger # ""

\* chooseDebugger
chooseDebugger ==
    /\ pc = "chooseDebugger"
    /\ IF debuggerSet(Squash)
       THEN /\ pc' = "namespace"
            /\ last' = [op |-> "chooseDebugger", asked |-> FALSE]
            /\ UNCHANGED <<Squash, result, calls>>
       ELSE IF detectLang(Squash) # ""
       THEN /\ Squash' = [Squash EXCEPT !.Debugger = detectLang(Squash)]
            /\ pc' = "namespace"
            /\ last' = [op |-> "chooseDebugger", asked |-> FALSE]
            /\ UNCHANGED <<result, calls>>
       ELSE \E ans \in SelectOutcomes(AvailableDebuggers) :
            /\ calls' = Append(calls, Call("AskOne", "debugger"))
            /\ last' = [op |-> "chooseDebugger", asked |-> TRUE]
            /\ IF ans.err # ""
               THEN Fail(ans.err) /\ UNCHANGED Squash
               ELSE /\ Squash' = [Squash EXCEPT !.Debugger = ans.choice]
                    /\ pc' = "namespace"
                    /\ UNCHANGED result
    /\ UNCHANGED <<secureMode, flags, offered, DebugTarget, initialPods, attachErr, createdPod,
                   currentPods, debugPods, intent>>

\* chooseAllowedNamespace's filter without its test for the kube- prefix
namespaceNames_NoKube(items) ==
    SelectSeq(items, LAMBDA nsname : nsname # "squash")

\* chooseAllowedNamespace's filter: not the tool's namespace, not a kube- one
namespaceNames(items) ==
    SelectSeq(items, LAMBDA nsname : nsname # "squash" /\ ~HasPrefix(nsname, "kube-"))

\* chooseAllowedNamespace, with target = &o.Squash.Namespace, as GetMissing calls it
chooseAllowedNamespace ==
    \E listing \in [err : {ApiError}, items : {<<>>}]
                      \cup [err : {""}, items : NamespaceListings] :
    LET names == namespaceNames(listing.items)
        done(asked, choice) == [op |-> "chooseAllowedNamespace", listed |-> listing.err = "",
                        items |-> listing.items, candidates |-> names, asked |-> asked, choice |-> choice]
    IN  /\ offered' = IF listing.err = "" THEN Offer("namespace", names) ELSE offered
        /\ IF listing.err # ""
           THEN /\ calls' = Append(calls, Call("ListNamespaces", ""))
                /\ last' = done(FALSE, "")
                /\ Fail(Wrap(Wrap(listing.err, "reading namespaces"), "choosing namespace"))
                /\ UNCHANGED Squash
           ELSE IF Len(names) = 0
           THEN /\ calls' = Append(calls, Call("ListNamespaces", ""))
                /\ last' = done(FALSE, "")
                /\ Fail(Wrap("no namespaces available!", "choosing namespace"))
                /\ UNCHANGED Squash
           ELSE IF Len(names) = 1
           THEN /\ calls' = Append(calls, Call("ListNamespaces", ""))
                /\ last' = done(FALSE, "")
                /\ Squash' = [Squash EXCEPT !.Namespace = names[1]]
                /\ pc' = "pod"
                /\ UNCHANGED result
           ELSE \E ans \in SelectOutcomes(names) :
                /\ calls' = calls \o <<Call("ListNamespaces", ""), Call("AskOne", "namespace")>>
                /\ last' = done(TRUE, ans.choice)
                /\ IF ans.err # ""
                   THEN Fail(Wrap(ans.err, "choosing namespace")) /\ UNCHANGED Squash
                   ELSE /\ Squash' = [Squash EXCEPT !.Namespace = ans.choice]
                        /\ pc' = "pod"
                        /\ UNCHANGED result

\* GetMissing, first part: the namespace
GetMissingNamespace ==
    /\ pc = "namespace"
    /\ IF Squash.Namespace = ""
       THEN chooseAllowedNamespace
       ELSE /\ pc' = "pod"
            /\ last' = [op |-> "GetMissingNamespace", asked |-> FALSE]
            /\ UNCHANGED <<Squash, result, calls, offered>>
    /\ UNCHANGED <<secureMode, flags, DebugTarget, initialPods, attachErr, createdPod,
                   currentPods, debugPods, intent>>

\* choosePod's candidate test without the choose-pod override
podMatches_NoOverride(pod, o) ==
    \/ o.Container = ""
    \/ \E i \in DOMAIN pod.containers : HasPrefix(pod.containers[i].image, o.Container)

\* choosePod's candidate test for one listed pod
podMatches(pod, o) ==
    \/ o.ChoosePod
    \/ o.Container = ""
    \/ \E i \in DOMAIN pod.containers : HasPrefix(pod.containers[i].image, o.Container)

\* choosePod's podName: the names of the listed pods that are candidates
podName(items, o) ==
    LET sel == SelectSeq(items, LAMBDA pod : podMatches(pod, o))
    IN  [i \in DOMAIN sel |-> sel[i].name]

\* the look-up of the choice settling on the first listed element, whatever the choice
FirstNamed_First(items, name, none) ==
    IF items # <<>> THEN items[1] ELSE none

\* the first element of items named name, or none
FirstNamed(items, name, none) ==
    IF \E i \in DOMAIN items : items[i].name = name
    THEN items[CHOOSE i \in DOMAIN items :
                 /\ items[i].name = name
                 /\ \A j \in 1..(i - 1) : items[j].name # name]
    ELSE none

\* choosePod
choosePod ==
    \E listing \in [err : {ApiError}, items : {<<>>}]
                      \cup [err : {""}, items : PodListings] :
    LET names == podName(listing.items, Squash)
        listed == Call("ListPods", [ns |-> Squash.Namespace, selector |-> ""])
        done(asked, choice) == [op |-> "choosePod", listed |-> listing.err = "",
                        items |-> listing.items, candidates |-> names, asked |-> asked, choice |-> choice]
        select(choice) ==
            LET pod == FirstNamed(listing.items, choice, NoPod)
            IN  IF pod # NoPod
                THEN /\ DebugTarget' = [DebugTarget EXCEPT !.Pod = pod]
                     /\ Squash' = [Squash EXCEPT !.Pod = pod.name]
                     /\ pc' = "container"
                     /\ UNCHANGED result
                ELSE /\ Fail(Wrap("pod not found", "choosing pod"))
                     /\ UNCHANGED <<Squash, DebugTarget>>
    IN  /\ offered' = IF listing.err = "" THEN Offer("pod", names) ELSE offered
        /\ IF listing.err # ""
           THEN /\ calls' = Append(calls, listed)
                /\ last' = done(FALSE, "")
                /\ Fail(Wrap(Wrap(listing.err, "reading namesapces"), "choosing pod"))
                /\ UNCHANGED <<Squash, DebugTarget>>
           ELSE IF Len(names) = 1
           THEN /\ calls' = Append(calls, listed)
                /\ last' = done(FALSE, "")
                /\ select(names[1])
           ELSE \E ans \in SelectOutcomes(names) :
                /\ calls' = calls \o <<listed, Call("AskOne", "pod")>>
                /\ last' = done(TRUE, ans.choice)
                /\ IF ans.err # ""
                   THEN Fail(Wrap(ans.err, "choosing pod")) /\ UNCHANGED <<Squash, DebugTarget>>
                   ELSE select(ans.choice)

\* config.Squash.GetDebugTargetPodFromSpec: the pod named o.Squash.Pod, read from the cluster
GetDebugTargetPodFromSpec ==
    \E got \in [err : {ApiError}, containers : {<<>>}]
                  \cup [err : {""}, containers : ContainerLists] :
    /\ calls' = Append(calls, Call("GetPod", [ns |-> Squash.Namespace, name |-> Squash.Pod]))
    /\ last' = [op |-> "GetDebugTargetPodFromSpec", asked |-> FALSE]
    /\ IF got.err # ""
       THEN Fail(got.err) /\ UNCHANGED DebugTarget
       ELSE /\ DebugTarget' = [DebugTarget EXCEPT
                                 !.Pod = [name |-> Squash.Pod, containers |-> got.containers]]
            /\ pc' = "container"
            /\ UNCHANGED result
    /\ UNCHANGED <<Squash, offered>>

\* GetMissing, second part: the pod
GetMissingPod ==
    /\ pc = "pod"
    /\ IF Squash.Pod = "" THEN choosePod ELSE GetDebugTargetPodFromSpec
    /\ UNCHANGED <<secureMode, flags, initialPods, attachErr, createdPod, currentPods,
                   debugPods, intent>>

\* chooseContainer without the silent selection of an only container
onlyContainer_Never(pod) == FALSE

\* chooseContainer's test for the silent selection of the pod's only container
onlyContainer(pod) == Len(pod.containers) = 1

\* chooseContainer
chooseContainer ==
    LET pod == DebugTarget.Pod
        containerNames == [i \in DOMAIN pod.containers |-> pod.containers[i].name]
        done(asked, choice) == [op |-> "chooseContainer", listed |-> TRUE,
                        items |-> pod.containers, candidates |-> containerNames,
                        asked |-> asked, choice |-> choice]
        select(container) ==
            /\ DebugTarget' = [DebugTarget EXCEPT !.Container = container]
            /\ Squash' = [Squash EXCEPT !.Container = container.name]
            /\ pc' = "ensureLocalPort"
            /\ UNCHANGED result
    IN  /\ offered' = Offer("container", containerNames)
        /\ IF Len(pod.containers) = 0
           THEN /\ last' = done(FALSE, "")
                /\ Fail(Wrap("no container to choose from", "choosing container"))
                /\ UNCHANGED <<Squash, DebugTarget, calls>>
           ELSE IF onlyContainer(pod)
           THEN /\ last' = done(FALSE, "")
                /\ select(pod.containers[1])
                /\ UNCHANGED calls
           ELSE \E ans \in SelectOutcomes(containerNames) :
                /\ calls' = Append(calls, Call("AskOne", "container"))
                /\ last' = done(TRUE, ans.choice)
                /\ IF ans.err # ""
                   THEN /\ Fail(Wrap(ans.err, "choosing container"))
                        /\ UNCHANGED <<Squash, DebugTarget>>
                   ELSE IF FirstNamed(pod.containers, ans.choice, NoContainer) # NoContainer
                   THEN select(FirstNamed(pod.containers, ans.choice, NoContainer))
                   ELSE /\ Fail(Wrap("selected container not found", "choosing container"))
                        /\ UNCHANGED <<Squash, DebugTarget>>

\* config.Squash.GetDebugTargetContainerFromSpec: the target pod's container named
\* o.Squash.Container (exact match), "selected container not found" without one
GetDebugTargetContainerFromSpec ==
    LET container == FirstNamed(DebugTarget.Pod.containers, Squash.Container, NoContainer)
    IN  /\ last' = [op |-> "GetDebugTargetContainerFromSpec", asked |-> FALSE]
        /\ IF container # NoContainer
           THEN /\ DebugTarget' = [DebugTarget EXCEPT !.Container = container]
                /\ pc' = "ensureLocalPort"
                /\ UNCHANGED result
           ELSE /\ Fail("selected container not found")
                /\ UNCHANGED DebugTarget
        /\ UNCHANGED <<Squash, calls, offered>>

\* GetMissing, third part: the container
GetMissingContainer ==
    /\ pc = "container"
    /\ IF Squash.Container = "" THEN chooseContainer ELSE GetDebugTargetContainerFromSpec
    /\ UNCHANGED <<secureMode, flags, initialPods, attachErr, createdPod, currentPods,
                   debugPods, intent>>

\* ensureLocalPort's error without the port in it
portInUseError_NoPort(port) ==
    "Port already in use. Please choose a different port or remove the --localport flag for a free port to be chosen automatically."

\* ensureLocalPort's error for a requested port that is bound
portInUseError(port) ==
    "Port " \o ToString(port) \o " already in use. Please choose a different port or remove the --localport flag for a free port to be chosen automatically."

\* ensureLocalPort leaving port 0 for the system to choose, probing only a given port
ensureLocalPort_NoAuto ==
    /\ pc = "ensureLocalPort"
    /\ IF Squash.LocalPort = 0
       THEN /\ last' = [op |-> "ensureLocalPort", asked |-> FALSE, err |-> ""]
            /\ pc' = "confirm"
            /\ UNCHANGED <<Squash, result, calls>>
       ELSE \E err \in {"", BoundPortError} :
            /\ calls' = Append(calls, Call("ExpectPortToBeFree", Squash.LocalPort))
            /\ last' = [op |-> "ensureLocalPort", asked |-> FALSE, err |-> err]
            /\ UNCHANGED Squash
            /\ IF err # ""
               THEN Fail(portInUseError(Squash.LocalPort))
               ELSE pc' = "confirm" /\ UNCHANGED result
    /\ UNCHANGED <<secureMode, flags, offered, DebugTarget, initialPods, attachErr,
                   createdPod, currentPods, debugPods, intent>>

\* ensureLocalPort, with port = &o.Squash.LocalPort
ensureLocalPort ==
    /\ pc = "ensureLocalPort"
    /\ IF Squash.LocalPort = 0
       THEN \E found \in [err : {NoFreePortError}, port : {0}]
                            \cup [err : {""}, port : FreePorts] :
            /\ calls' = Append(calls, Call("FindAnyFreePort", 0))
            /\ last' = [op |-> "ensureLocalPort", asked |-> FALSE, err |-> found.err]
            /\ IF found.err # ""
               THEN Fail(found.err) /\ UNCHANGED Squash
               ELSE /\ Squash' = [Squash EXCEPT !.LocalPort = found.port]
                    /\ pc' = "confirm"
                    /\ UNCHANGED result
       ELSE \E err \in {"", BoundPortError} :
            /\ calls' = Append(calls, Call("ExpectPortToBeFree", Squash.LocalPort))
            /\ last' = [op |-> "ensureLocalPort", asked |-> FALSE, err |-> err]
            /\ UNCHANGED Squash
            /\ IF err # ""
               THEN Fail(portInUseError(Squash.LocalPort))
               ELSE pc' = "confirm" /\ UNCHANGED result
    /\ UNCHANGED <<secureMode, flags, offered, DebugTarget, initialPods, attachErr, createdPod,
                   currentPods, debugPods, intent>>

\* runBaseCommand always taking the direct branch
AttachEntry_AlwaysDirect == "StartDebugContainer"

\* the pc at which attachment begins (runBaseCommand's branch on secureMode)
AttachEntry == IF secureMode THEN "ensureSquashIsInCluster" ELSE "StartDebugContainer"

\* ensureMinimumSquashConfig asking in machine mode too
confirmationRequired_Always(o) == TRUE

\* ensureMinimumSquashConfig never asking
confirmationRequired_Never(o) == FALSE

\* ensureMinimumSquashConfig's test for asking the user to confirm
confirmationRequired(o) == ~o.Machine

\* ensureMinimumSquashConfig's confirmation gate: survey.AskOne's error is dropped,
\* confirmed stays false unless the user answers yes
confirm ==
    /\ pc = "confirm"
    /\ IF confirmationRequired(Squash)
       THEN \E ans \in [err : {PromptError}, confirmed : {FALSE}]
                          \cup [err : {""}, confirmed : BOOLEAN] :
            /\ calls' = Append(calls, Call("Confirm",
                            [debugger |-> Squash.Debugger, pod |-> DebugTarget.Pod.name,
                             confirmed |-> ans.confirmed]))
            /\ last' = [op |-> "confirm", asked |-> TRUE, confirmed |-> ans.confirmed]
            /\ IF ~ans.confirmed
               THEN Fail("user aborted")
               ELSE pc' = AttachEntry /\ UNCHANGED result
       ELSE /\ pc' = AttachEntry
            /\ last' = [op |-> "confirm", asked |-> FALSE, confirmed |-> FALSE]
            /\ UNCHANGED <<result, calls>>
    /\ UNCHANGED <<Squash, secureMode, flags, offered, DebugTarget, initialPods, attachErr, createdPod,
                   currentPods, debugPods, intent>>

(***************************************************************************)
(* Attachment: runBaseCommand and runBaseCommandWithRbac                   *)
(***************************************************************************)
\* runBaseCommand's direct branch: config.StartDebugContainer, its error returned as is
StartDebugContainer ==
    /\ pc = "StartDebugContainer"
    /\ \E err \in {"", "start debug container failed"} :
        /\ calls' = Append(calls, Call("StartDebugContainer",
                        [ns |-> Squash.Namespace, pod |-> DebugTarget.Pod.name,
                         container |-> DebugTarget.Container.name,
                         debugger |-> Squash.Debugger]))
        /\ last' = [op |-> "StartDebugContainer", err |-> err]
        /\ result' = IF err = "" THEN "ok" ELSE err
    /\ pc' = "done"
    /\ UNCHANGED <<Squash, secureMode, flags, offered, DebugTarget, initialPods, attachErr, createdPod,
                   currentPods, debugPods, intent>>

\* ensureSquashIsInCluster dropping the error of utils.ListSquashDeployments
squashIsInClusterError_DropListError(got) ==
    IF got.nsErr # "" THEN got.nsErr
    ELSE IF got.depErr = "" /\ got.squashDeployments = 0
    THEN "Squash must be deployed to the cluster to use secure mode."
    ELSE ""

\* ensureSquashIsInCluster without its test for an empty deployment list
squashIsInClusterError_NoCount(got) ==
    IF got.nsErr # "" THEN got.nsErr
    ELSE IF got.depErr # "" THEN got.depErr
    ELSE ""

\* ensureSquashIsInCluster's returned error, "" for nil
squashIsInClusterError(got) ==
    IF got.nsErr # "" THEN got.nsErr
    ELSE IF got.depErr # "" THEN got.depErr
    ELSE IF got.squashDeployments = 0
    THEN "Squash must be deployed to the cluster to use secure mode. Either disable secure mode in your squash config file or deploy Squash to your cluster. You can deploy with 'squashctl agent deploy'."
    ELSE ""

\* runBaseCommandWithRbac's first step: ensureSquashIsInCluster
ensureSquashIsInCluster ==
    /\ pc = "ensureSquashIsInCluster"
    /\ \E got \in [nsErr : {ApiError}, depErr : {""}, squashDeployments : {0}]
                     \cup [nsErr : {""}, depErr : {ApiError}, squashDeployments : {0}]
                     \cup [nsErr : {""}, depErr : {""}, squashDeployments : {0, 1}] :
        /\ calls' = IF got.nsErr # ""
                    THEN Append(calls, Call("GetNamespaces", ""))
                    ELSE calls \o <<Call("GetNamespaces", ""),
                                    Call("ListSquashDeployments", "")>>
        /\ last' = [op |-> "ensureSquashIsInCluster", got |-> got]
        /\ IF squashIsInClusterError(got) # ""
           THEN Fail(squashIsInClusterError(got))
           ELSE pc' = "ListInitialPods" /\ UNCHANGED result
    /\ UNCHANGED <<Squash, secureMode, flags, offered, DebugTarget, initialPods, attachErr, createdPod,
                   currentPods, debugPods, intent>>

\* what Pods(ns).List(selector) returns: the pods carrying the selector's label
ListPods(query) ==
    IF query.selector = SquashLabelSelectorString
    THEN debugPods
    ELSE debugPods \cup WorkloadPods

\* the listing runBaseCommandWithRbac makes before the intent is submitted
initialPodsQuery == [ns |-> Squash.Namespace, selector |-> SquashLabelSelectorString]

\* getCreatedPod listing the namespace's pods without the label selector
currentPodsQuery_NoSelector == [ns |-> Squash.Namespace, selector |-> ""]

\* the listing getCreatedPod makes
currentPodsQuery == [ns |-> Squash.Namespace, selector |-> SquashLabelSelectorString]

\* squashv1.GenDebugAttachmentName
GenDebugAttachmentName(pod, container) == <<pod, container>>

\* runBaseCommandWithRbac up to the "before" snapshot: actions.NewUserController,
\* the intent's name, and the listing of the debug-session pods
ListInitialPods ==
    /\ pc = "ListInitialPods"
    /\ \E got \in [ucErr : {"no user controller"}, listErr : {""}]
                     \cup [ucErr : {""}, listErr : {"", ApiError}] :
        /\ last' = [op |-> "ListInitialPods", got |-> got]
        /\ IF got.ucErr # ""
           THEN /\ Fail(got.ucErr)
                /\ UNCHANGED <<calls, initialPods>>
           ELSE /\ calls' = Append(calls, Call("ListPods", initialPodsQuery))
                /\ IF got.listErr # ""
                   THEN Fail(got.listErr) /\ UNCHANGED initialPods
                   ELSE /\ initialPods' = ListPods(initialPodsQuery)
                        /\ pc' = "Attach"
                        /\ UNCHANGED result
    /\ UNCHANGED <<Squash, secureMode, flags, offered, DebugTarget, attachErr, createdPod,
                   currentPods, debugPods, intent>>

\* the intent uc.Attach is called with
AttachArgs ==
    [name |-> GenDebugAttachmentName(Squash.Pod, Squash.Container),
     ns |-> Squash.Namespace, image |-> DebugTarget.Container.image,
     pod |-> DebugTarget.Pod.name, container |-> Squash.Container,
     debugger |-> Squash.Debugger]

\* runBaseCommandWithRbac: uc.Attach; its err is assigned and not read again, the
\* sleep follows in either case
Attach ==
    /\ pc = "Attach"
    /\ \E err \in {"", "attach failed"} :
        /\ calls' = Append(calls, Call("Attach", AttachArgs))
        /\ last' = [op |-> "Attach", err |-> err]
        /\ attachErr' = err
        /\ intent' = IF err = "" THEN intent \cup {AttachArgs} ELSE intent
    /\ pc' = "Sleep"
    /\ UNCHANGED result
    /\ UNCHANGED <<Squash, secureMode, flags, offered, DebugTarget, initialPods, createdPod, currentPods,
                   debugPods>>

\* runBaseCommandWithRbac: time.Sleep(3 * time.Second)
Sleep ==
    /\ pc = "Sleep"
    /\ calls' = Append(calls, Call("Sleep", "3s"))
    /\ last' = [op |-> "Sleep"]
    /\ pc' = "getCreatedPod"
    /\ UNCHANGED <<Squash, secureMode, flags, offered, DebugTarget, result, initialPods, attachErr,
                   createdPod, currentPods, debugPods, intent>>

\* getCreatedPod without the loop that removes the initial pods
lookup_KeepInitial(initialItems, currentItems) == currentItems

\* getCreatedPod's lookup after both loops: the current pods, less the initial ones
lookup(initialItems, currentItems) ==
    { p \in currentItems : p \notin initialItems }

\* getCreatedPod rejecting only an empty result
matchCountError_ZeroOnly(matchCount) ==
    IF matchCount = 0
    THEN "Expected to find one newly created squash debug pod, found " \o ToString(matchCount)
    ELSE ""

\* getCreatedPod's error for a matchCount
matchCountError(matchCount) ==
    IF matchCount # 1
    THEN "Expected to find one newly created squash debug pod, found " \o ToString(matchCount)
    ELSE ""

\* getCreatedPod(initialPods, createdPod)
getCreatedPod ==
    /\ pc = "getCreatedPod"
    /\ \E listErr \in {"", ApiError} :
        LET currentItems == ListPods(currentPodsQuery)
            left == lookup(initialPods, currentItems)
            matchCount == Cardinality(left)
        IN  /\ calls' = Append(calls, Call("ListPods", currentPodsQuery))
            /\ last' = [op |-> "getCreatedPod", listed |-> listErr = ""]
            /\ IF listErr # ""
               THEN Fail(listErr) /\ UNCHANGED <<createdPod, currentPods>>
               ELSE /\ currentPods' = currentItems
                    /\ \E v \in left \cup {NoDebugPod} :
                         /\ (left # {}) => v \in left
                         /\ createdPod' = v
                    /\ IF matchCountError(matchCount) # ""
                       THEN Fail(matchCountError(matchCount))
                       ELSE pc' = "ReportOrConnect" /\ UNCHANGED result
    /\ UNCHANGED <<Squash, secureMode, flags, offered, DebugTarget, initialPods, attachErr,
                   debugPods, intent>>

\* runBaseCommandWithRbac's return: config.Squash.ReportOrConnectToCreatedDebuggerPod
ReportOrConnect ==
    /\ pc = "ReportOrConnect"
    /\ \E err \in {"", "connect failed"} :
        /\ calls' = Append(calls, Call("ReportOrConnect", createdPod))
        /\ last' = [op |-> "ReportOrConnect", err |-> err]
        /\ result' = IF err = "" THEN "ok" ELSE err
    /\ pc' = "done"
    /\ UNCHANGED <<Squash, secureMode, flags, offered, DebugTarget, initialPods, attachErr, createdPod,
                   currentPods, debugPods, intent>>

(***************************************************************************)
(* The cluster, concurrently with the run: only what happens from just     *)
(* before the "before" snapshot to the "current" one can be seen by it.    *)
(***************************************************************************)
SnapshotWindow == {"ListInitialPods", "Attach", "Sleep", "getCreatedPod"}

\* the squash agent reconciles the submitted intent into a debug pod
AgentCreatesPod ==
    /\ pc \in SnapshotWindow
    /\ intent # {}
    /\ AgentPod \notin debugPods
    /\ debugPods' = debugPods \cup {AgentPod}
    /\ UNCHANGED <<Squash, secureMode, flags, offered, DebugTarget, pc, result, calls, last,
                   initialPods, attachErr, createdPod, currentPods, intent>>

\* a debug pod of another session appears in the namespace
OtherPodAppears ==
    /\ pc \in SnapshotWindow
    /\ \E p \in OtherPods \ debugPods : debugPods' = debugPods \cup {p}
    /\ UNCHANGED <<Squash, secureMode, flags, offered, DebugTarget, pc, result, calls, last,
                   initialPods, attachErr, createdPod, currentPods, intent>>

\* a debug pod of another session is cleaned up
OtherPodDisappears ==
    /\ pc \in SnapshotWindow
    /\ \E p \in OtherPods \cap debugPods : debugPods' = debugPods \ {p}
    /\ UNCHANGED <<Squash, secureMode, flags, offered, DebugTarget, pc, result, calls, last,
                   initialPods, attachErr, createdPod, currentPods, intent>>

Next ==
    \/ chooseDebugger
    \/ GetMissingNamespace
    \/ GetMissingPod
    \/ GetMissingContainer
    \/ ensureLocalPort
    \/ confirm
    \/ StartDebugContainer
    \/ ensureSquashIsInCluster
    \/ ListInitialPods
    \/ Attach
    \/ Sleep
    \/ getCreatedPod
    \/ ReportOrConnect
    \/ AgentCreatesPod
    \/ OtherPodAppears
    \/ OtherPodDisappears

Spec == Init /\ [][Next]_vars

(***************************************************************************)
(* Vocabulary of the properties                                            *)
(***************************************************************************)
Called(op) == \E i \in DOMAIN calls : calls[i].op = op

CountCalls(op) == Cardinality({ i \in DOMAIN calls : calls[i].op = op })

\* a listing of the debug-session pods (one of the two snapshots)
IsSnapshot(c) ==
    /\ c.op = "ListPods"
    /\ c.arg.selector = SquashLabelSelectorString

\* the calls by which attachment acts: the direct start, the deployment check,
\* the snapshots and the intent's submission
IsAttachmentCall(c) ==
    \/ c.op \in {"StartDebugContainer", "GetNamespaces", "ListSquashDeployments", "Attach"}
    \/ IsSnapshot(c)

NoAttachmentCall == \A i \in DOMAIN calls : ~IsAttachmentCall(calls[i])

Failed == pc = "done" /\ result \notin {"ok", "running"}

\* the pods of the current snapshot that the before snapshot does not hold
NewPods == { p \in currentPods : p \notin initialPods }

DeploymentMissing ==
    /\ last.op = "ensureSquashIsInCluster"
    /\ last.got.nsErr = ""
    /\ last.got.depErr = ""
    /\ last.got.squashDeployments = 0

(***************************************************************************)
(* C1: in secure mode, when the deployment check finds no deployment of    *)
(* the tool, the run ends Failed with no intent submitted: Attach has not  *)
(* been called, and StartDebugContainer has not been called either.        *)
(***************************************************************************)
C1_NoDeploymentFailsBeforeAttach ==
    DeploymentMissing =>
        /\ secureMode
        /\ Failed
        /\ ~Called("Attach")
        /\ ~Called("StartDebugContainer")
        /\ \A i \in DOMAIN calls : calls[i].op = "ListPods" => ~IsSnapshot(calls[i])
        /\ intent = {}

C1_Witness ==
    /\ DeploymentMissing
    /\ secureMode
    /\ pc = "done"
    /\ Called("ListSquashDeployments")

(***************************************************************************)
(* C2: getCreatedPod computes the pods of the current snapshot that are    *)
(* not in the before snapshot; it succeeds exactly when there is one such  *)
(* pod, which it returns, and otherwise fails with an error carrying their *)
(* number.  Pods of the before snapshot that are gone do not matter.       *)
(***************************************************************************)
C2_DifferExactlyOne ==
    (last.op = "getCreatedPod" /\ last.listed) =>
        /\ (pc = "ReportOrConnect") <=> (Cardinality(NewPods) = 1)
        /\ (pc = "ReportOrConnect") => NewPods = {createdPod}
        /\ (pc # "ReportOrConnect") =>
              /\ pc = "done"
              /\ result = "Expected to find one newly created squash debug pod, found "
                             \o ToString(Cardinality(NewPods))

C2_Witness ==
    /\ last.op = "getCreatedPod"
    /\ last.listed
    /\ pc = "ReportOrConnect"
    /\ \E p \in initialPods : p \notin currentPods

(***************************************************************************)
(* C3: in secure mode an error returned by Attach is surfaced at once: the *)
(* run ends Failed with it, and no sleep, current snapshot or              *)
(* report/connect call follows the failed submission.                      *)
(***************************************************************************)
C3_AttachErrorSurfaced ==
    attachErr # "" =>
        /\ pc = "done"
        /\ result = attachErr
        /\ calls[Len(calls)].op = "Attach"

(***************************************************************************)
(* C4: in a secure run that submits an intent, the before snapshot is the  *)
(* call right before Attach, the current snapshot comes after Attach and   *)
(* the sleep, both ask for the same namespace and the debug-session label, *)
(* and the pod the agent creates for the intent is not in the before       *)
(* snapshot.                                                               *)
(***************************************************************************)
C4_SnapshotsAroundAttach ==
    \A i \in DOMAIN calls : calls[i].op = "Attach" =>
        /\ i > 1
        /\ IsSnapshot(calls[i - 1])
        /\ calls[i - 1].arg.ns = calls[i].arg.ns
        /\ \A k \in 1..(i - 2) : calls[k].op = "ListPods" => ~IsSnapshot(calls[k])
        /\ AgentPod \notin initialPods
        /\ \A k \in (i + 1)..Len(calls) : calls[k].op = "ListPods" =>
              /\ k > i + 1
              /\ calls[i + 1].op = "Sleep"
              /\ calls[k].arg = calls[i - 1].arg
        /\ (last.op = "getCreatedPod") =>
              /\ Len(calls) = i + 2
              /\ IsSnapshot(calls[i + 2])

C4_Witness ==
    /\ Called("Attach")
    /\ last.op = "getCreatedPod"
    /\ last.listed
    /\ AgentPod \in currentPods
    /\ initialPods # {}

(***************************************************************************)
(* C5: in secure mode the report/connect collaborator is called only when  *)
(* exactly one pod is in the current snapshot and not in the before one,   *)
(* and it is called with that pod; with zero or several new pods the run   *)
(* ends Failed reporting their number and the collaborator is not called.  *)
(***************************************************************************)
C5_ConnectedOnlyOnOneNewPod ==
    /\ \A i \in DOMAIN calls : calls[i].op = "ReportOrConnect" =>
          /\ Cardinality(NewPods) = 1
          /\ calls[i].arg \in NewPods
    /\ (last.op = "getCreatedPod" /\ last.listed /\ Cardinality(NewPods) # 1) =>
          /\ Failed
          /\ result = "Expected to find one newly created squash debug pod, found "
                         \o ToString(Cardinality(NewPods))
          /\ ~Called("ReportOrConnect")

C5_Witness ==
    /\ Called("ReportOrConnect")
    /\ result = "ok"
    /\ initialPods # {}
    /\ Cardinality(currentPods) > 1

(***************************************************************************)
(* C6: the two modes exclude each other within a run: a direct run never   *)
(* calls Attach, succeeds only through StartDebugContainer and ends with   *)
(* exactly StartDebugContainer's success or error; a secure run never      *)
(* calls StartDebugContainer.                                              *)
(***************************************************************************)
C6_ModesExclusive ==
    /\ ~secureMode =>
          /\ ~Called("Attach")
          /\ intent = {}
          /\ CountCalls("StartDebugContainer") <= 1
          /\ (pc = "done" /\ result = "ok") => Called("StartDebugContainer")
          /\ Called("StartDebugContainer") =>
                /\ last.op = "StartDebugContainer"
                /\ pc = "done"
                /\ result = (IF last.err = "" THEN "ok" ELSE last.err)
    /\ secureMode => ~Called("StartDebugContainer")

C6_Witness ==
    /\ ~secureMode
    /\ Called("StartDebugContainer")
    /\ result = "start debug container failed"

Selections == {"chooseAllowedNamespace", "choosePod", "chooseContainer"}

\* the field a selection step resolves, as the prompts name it
FieldOf(op) ==
    CASE op = "chooseAllowedNamespace" -> "namespace"
      [] op = "choosePod" -> "pod"
      [] op = "chooseContainer" -> "container"

Prompted(field) ==
    \E i \in DOMAIN calls : calls[i].op = "AskOne" /\ calls[i].arg = field

(***************************************************************************)
(* C7: in machine mode no interactive prompt is issued: no selection       *)
(* prompt for the debugger, namespace, pod or container, whatever the      *)
(* number of candidates.                                                   *)
(***************************************************************************)
C7_MachineModeNeverPrompts ==
    Squash.Machine => ~Called("AskOne")

(***************************************************************************)
(* C8: when the candidate list of a namespace, pod or container selection  *)
(* has exactly one element, that element is selected with no prompt for    *)
(* the field, and the option and the DebugTarget refer to it.              *)
(***************************************************************************)
C8_SingleCandidateAutoSelected ==
    (last.op \in Selections /\ last.listed /\ Len(last.candidates) = 1) =>
        /\ ~last.asked
        /\ ~Prompted(FieldOf(last.op))
        /\ pc # "done"
        /\ last.op = "chooseAllowedNamespace" =>
              Squash.Namespace = last.candidates[1]
        /\ last.op = "choosePod" =>
              /\ Squash.Pod = last.candidates[1]
              /\ DebugTarget.Pod.name = last.candidates[1]
              /\ DebugTarget.Pod \in Range(last.items)
        /\ last.op = "chooseContainer" =>
              /\ Squash.Container = last.candidates[1]
              /\ DebugTarget.Container.name = last.candidates[1]
              /\ DebugTarget.Container \in Range(DebugTarget.Pod.containers)

C8_Witness ==
    /\ last.op = "chooseContainer"
    /\ Len(last.candidates) = 1
    /\ Squash.Container = "sidecar"
    /\ ~Called("AskOne")

(***************************************************************************)
(* C9: when the candidate list of a namespace, pod or container selection  *)
(* is empty, resolution fails without a selection prompt being issued for  *)
(* the field, in interactive and in machine mode, and no attachment        *)
(* action follows.                                                         *)
(***************************************************************************)
C9_NoCandidateFailsWithoutPrompt ==
    (last.op \in Selections /\ last.listed /\ Len(last.candidates) = 0) =>
        /\ ~last.asked
        /\ ~Prompted(FieldOf(last.op))
        /\ Failed
        /\ NoAttachmentCall

(***************************************************************************)
(* C10: outside machine mode every attachment action comes after a         *)
(* confirmation the user has answered with yes; when the user declines or  *)
(* the confirmation fails the run ends with "user aborted" and no          *)
(* attachment action; in machine mode no confirmation is asked.            *)
(***************************************************************************)
C10_ConfirmationGate ==
    /\ ~Squash.Machine =>
          \A i \in DOMAIN calls : IsAttachmentCall(calls[i]) =>
              \E j \in 1..(i - 1) : calls[j].op = "Confirm" /\ calls[j].arg.confirmed
    /\ \A j \in DOMAIN calls : (calls[j].op = "Confirm" /\ ~calls[j].arg.confirmed) =>
          /\ pc = "done"
          /\ result = "user aborted"
          /\ NoAttachmentCall
    /\ CountCalls("Confirm") <= 1
    /\ Squash.Machine => ~Called("Confirm")

C10_Witness ==
    /\ ~Squash.Machine
    /\ last.op = "confirm"
    /\ Called("Confirm")
    /\ ~last.confirmed
    /\ result = "user aborted"

\* attachment has begun: the run stands at or past the branch on secureMode
AttachmentBegun ==
    \/ pc \in {"StartDebugContainer", "ensureSquashIsInCluster", "ListInitialPods",
               "Attach", "Sleep", "getCreatedPod", "ReportOrConnect"}
    \/ ~NoAttachmentCall

(***************************************************************************)
(* C11: once attachment begins (StartDebugContainer is due or called, or   *)
(* the secure path is entered), namespace, pod, container and debugger are *)
(* non-empty and the local port is non-zero, whatever options were set at  *)
(* the start and whatever the cluster listed.                              *)
(***************************************************************************)
C11_ResolvedWhenAttachmentBegins ==
    AttachmentBegun =>
        /\ Squash.Namespace # ""
        /\ Squash.Pod # ""
        /\ Squash.Container # ""
        /\ Squash.Debugger # ""
        /\ Squash.LocalPort # 0

C11_Witness ==
    /\ pc = "ensureSquashIsInCluster"
    /\ flags.Namespace = ""
    /\ flags.Pod = ""
    /\ flags.Container = ""
    /\ flags.Debugger = ""
    /\ flags.LocalPort = 0

(***************************************************************************)
(* C12: a requested non-zero local port is probed as requested and never   *)
(* changed; when it is bound the run ends Failed with an error naming the  *)
(* port, with no confirmation prompt and no attachment action; when it is  *)
(* free the run goes on with the port as requested.                        *)
(***************************************************************************)
C12_RequestedPortBoundFails ==
    /\ flags.LocalPort # 0 => Squash.LocalPort = flags.LocalPort
    /\ \A i \in DOMAIN calls : calls[i].op = "ExpectPortToBeFree" =>
          /\ flags.LocalPort # 0
          /\ calls[i].arg = flags.LocalPort
    /\ (flags.LocalPort # 0 /\ (pc = "confirm" \/ Called("Confirm") \/ AttachmentBegun)) =>
          CountCalls("ExpectPortToBeFree") = 1
    /\ (last.op = "ensureLocalPort" /\ flags.LocalPort # 0) =>
          IF last.err # ""
          THEN /\ Failed
               /\ HasPrefix(result, "Port " \o ToString(flags.LocalPort) \o " already in use.")
               /\ ~Called("Confirm")
               /\ NoAttachmentCall
          ELSE /\ pc = "confirm"
               /\ result = "running"

C12_Witness ==
    /\ last.op = "ensureLocalPort"
    /\ flags.LocalPort = 8080
    /\ last.err = BoundPortError
    /\ Squash.LocalPort = 8080
    /\ pc = "done"

(***************************************************************************)
(* C13: an option that is set when resolution starts (namespace, pod,      *)
(* container, debugger non-empty, local port non-zero) keeps its value up  *)
(* to and after the moment attachment begins, and no prompt or selection   *)
(* is made for it; resolution and port allocation fill unset fields only.  *)
(***************************************************************************)
C13_SetOptionsKept ==
    /\ flags.Namespace # "" =>
          /\ Squash.Namespace = flags.Namespace
          /\ ~Prompted("namespace")
          /\ "namespace" \notin DOMAIN offered
    /\ flags.Pod # "" =>
          /\ Squash.Pod = flags.Pod
          /\ ~Prompted("pod")
          /\ "pod" \notin DOMAIN offered
    /\ flags.Container # "" =>
          /\ Squash.Container = flags.Container
          /\ ~Prompted("container")
          /\ "container" \notin DOMAIN offered
    /\ flags.Debugger # "" =>
          /\ Squash.Debugger = flags.Debugger
          /\ ~Prompted("debugger")
    /\ flags.LocalPort # 0 =>
          /\ Squash.LocalPort = flags.LocalPort
          /\ ~Called("FindAnyFreePort")
    /\ Squash.Machine = flags.Machine
    /\ Squash.ChoosePod = flags.ChoosePod
    /\ Squash.ChooseDebugger = flags.ChooseDebugger

C13_Witness ==
    /\ AttachmentBegun
    /\ flags.Namespace = "ns1"
    /\ flags.Pod = "p1"
    /\ flags.Container = "app"
    /\ flags.Debugger = "dlv"
    /\ flags.LocalPort = 8080
    /\ Squash = flags

\* machine mode, direct mode, the debugger given, nothing else given, and every
\* selection that has run so far had exactly one candidate
SingleTargetScenario ==
    /\ flags.Machine
    /\ ~secureMode
    /\ flags.Debugger # ""
    /\ flags.Namespace = ""
    /\ flags.Pod = ""
    /\ flags.Container = ""
    /\ \A f \in DOMAIN offered : Len(offered[f]) = 1

(***************************************************************************)
(* C14: with the debugger set, machine mode on, secure mode off and a      *)
(* cluster offering one eligible namespace with one pod with one           *)
(* container, resolution issues no prompt at all, and unless a listing or  *)
(* the port allocation fails the run calls StartDebugContainer exactly     *)
(* once, with that namespace, pod, container and debugger.                 *)
(***************************************************************************)
C14_SingleTargetDirectAttach ==
    SingleTargetScenario =>
        /\ ~Called("AskOne")
        /\ ~Called("Confirm")
        /\ CountCalls("StartDebugContainer") <= 1
        /\ pc = "done" =>
              \/ last.op \in Selections /\ ~last.listed
              \/ last.op = "ensureLocalPort" /\ last.err # ""
              \/ /\ last.op = "StartDebugContainer"
                 /\ DOMAIN offered = {"namespace", "pod", "container"}
                 /\ CountCalls("StartDebugContainer") = 1
                 /\ calls[Len(calls)] =
                       Call("StartDebugContainer",
                            [ns |-> offered["namespace"][1], pod |-> offered["pod"][1],
                             container |-> offered["container"][1],
                             debugger |-> flags.Debugger])

C14_Witness ==
    /\ SingleTargetScenario
    /\ DOMAIN offered = {"namespace", "pod", "container"}
    /\ last.op = "StartDebugContainer"
    /\ result = "ok"
    /\ calls[Len(calls)].arg =
          [ns |-> "ns1", pod |-> "p2", container |-> "sidecar", debugger |-> "dlv"]

(***************************************************************************)
(* C15: in secure mode the pod handed to the report/connect collaborator   *)
(* is the debug pod the agent created for this run's own intent, also when *)
(* debug pods of other sessions appear or disappear between the two        *)
(* snapshots or the agent acts late.  Stated for the runs whose intent was *)
(* submitted successfully.                                                 *)
(***************************************************************************)
C15_ConnectedToOwnPod ==
    \A i \in DOMAIN calls : (calls[i].op = "ReportOrConnect" /\ intent # {}) =>
        calls[i].arg = AgentPod

LastCall == calls[Len(calls)]

Snapshots == { i \in DOMAIN calls : IsSnapshot(calls[i]) }

(***************************************************************************)
(* C16: an error of a cluster listing ends the run at once with that       *)
(* error, the failed listing being the last call made: a failed namespace  *)
(* or pod listing of the resolution leaves no attachment action, a failed  *)
(* deployment check or before snapshot leaves no Attach, a failed current  *)
(* snapshot leaves no report/connect.  Nothing is retried: every listing   *)
(* and the submission are made at most once (the debug-session pods are    *)
(* listed at most once before Attach and once after it).                   *)
(***************************************************************************)
C16_ListingErrorStopsRun ==
    /\ (last.op = "chooseAllowedNamespace" /\ ~last.listed) =>
          /\ Failed
          /\ result = "choosing namespace: reading namespaces: " \o ApiError
          /\ LastCall.op = "ListNamespaces"
          /\ NoAttachmentCall
    /\ (last.op = "choosePod" /\ ~last.listed) =>
          /\ Failed
          /\ result = "choosing pod: reading namesapces: " \o ApiError
          /\ LastCall.op = "ListPods"
          /\ NoAttachmentCall
    /\ (last.op = "ensureSquashIsInCluster"
          /\ (last.got.nsErr # "" \/ last.got.depErr # "")) =>
          /\ Failed
          /\ result = ApiError
          /\ LastCall.op = (IF last.got.nsErr # "" THEN "GetNamespaces"
                            ELSE "ListSquashDeployments")
          /\ Snapshots = {}
          /\ ~Called("Attach")
    /\ (last.op = "ListInitialPods" /\ last.got.listErr # "") =>
          /\ Failed
          /\ result = ApiError
          /\ Snapshots = {Len(calls)}
          /\ ~Called("Attach")
    /\ (last.op = "getCreatedPod" /\ ~last.listed) =>
          /\ Failed
          /\ result = ApiError
          /\ Len(calls) \in Snapshots
          /\ ~Called("ReportOrConnect")
    /\ \A op \in {"ListNamespaces", "GetNamespaces", "ListSquashDeployments",
                  "Attach", "ReportOrConnect"} : CountCalls(op) <= 1
    /\ Cardinality({ i \in DOMAIN calls : calls[i].op = "ListPods" } \ Snapshots) <= 1
    /\ Cardinality(Snapshots) <= (IF Called("Attach") THEN 2 ELSE 1)

C16_Witness ==
    /\ last.op = "getCreatedPod"
    /\ ~last.listed
    /\ Called("Attach")
    /\ Called("ListNamespaces")
    /\ debugPods # {}

\* the value of a field of the target as resolved so far
Resolved(field) ==
    CASE field = "namespace" -> Squash.Namespace
      [] field = "pod" -> Squash.Pod
      [] field = "container" -> Squash.Container

CountPrompts(field) ==
    Cardinality({ i \in DOMAIN calls : calls[i] = Call("AskOne", field) })

Reserved(nsname) ==
    \/ nsname = "squash"
    \/ (Len(nsname) >= 5 /\ SubSeq(nsname, 1, 5) = "kube-")

(***************************************************************************)
(* C18: when the namespace is not given, the candidates of the namespace   *)
(* selection are exactly the listed namespaces other than "squash" and     *)
(* those named "kube-...": the zero / one / many cases are decided by      *)
(* their number alone, none of the excluded ones is ever offered, and the  *)
(* namespace the selection resolves (silently or by prompt) is never one   *)
(* of them.                                                                *)
(***************************************************************************)
C18_ReservedNamespacesExcluded ==
    /\ (last.op = "chooseAllowedNamespace" /\ last.listed) =>
          LET eligible == { i \in DOMAIN last.items : ~Reserved(last.items[i]) }
          IN  /\ Range(last.candidates) = { last.items[i] : i \in eligible }
              /\ Len(last.candidates) = Cardinality(eligible)
              /\ Cardinality(eligible) = 0 =>
                    /\ Failed
                    /\ ~last.asked
                    /\ Squash.Namespace = ""
              /\ Cardinality(eligible) = 1 =>
                    /\ ~Failed
                    /\ ~last.asked
                    /\ \E i \in eligible : Squash.Namespace = last.items[i]
              /\ Cardinality(eligible) >= 2 => last.asked
    /\ "namespace" \in DOMAIN offered =>
          \A i \in DOMAIN offered["namespace"] : ~Reserved(offered["namespace"][i])
    /\ (flags.Namespace = "" /\ Squash.Namespace # "") => ~Reserved(Squash.Namespace)

C18_Witness ==
    /\ last.op = "chooseAllowedNamespace"
    /\ last.items = <<"kube-system", "ns1", "squash">>
    /\ ~last.asked
    /\ flags.Namespace = ""
    /\ Squash.Namespace = "ns1"

\* the pod has a container whose image starts with the given string
HasImage(pod, str) ==
    \E i \in DOMAIN pod.containers :
        /\ Len(pod.containers[i].image) >= Len(str)
        /\ SubSeq(pod.containers[i].image, 1, Len(str)) = str

(***************************************************************************)
(* C19: the pod selection runs for an unset pod and lists the pods of the  *)
(* resolved namespace.  With a container string given and the choose-pod   *)
(* override off its candidates are the names of the listed pods having a   *)
(* container whose image starts with that string, each once and in listing *)
(* order; otherwise they are the names of all listed pods.  The pod it     *)
(* selects is one of these candidates, and stays so for the run.           *)
(***************************************************************************)
C19_PodCandidatesByImagePrefix ==
    /\ (last.op = "choosePod" /\ last.listed) =>
          LET filtered == flags.Container # "" /\ ~flags.ChoosePod
              expected == IF filtered
                          THEN SelectSeq(last.items,
                                         LAMBDA pod : HasImage(pod, flags.Container))
                          ELSE last.items
          IN  /\ flags.Pod = ""
              /\ last.candidates = [i \in DOMAIN expected |-> expected[i].name]
              /\ \E i \in DOMAIN calls :
                    calls[i] = Call("ListPods", [ns |-> Squash.Namespace, selector |-> ""])
              /\ ~Failed =>
                    /\ Squash.Pod \in Range(last.candidates)
                    /\ DebugTarget.Pod \in Range(last.items)
                    /\ DebugTarget.Pod.name = Squash.Pod
    /\ ("pod" \in DOMAIN offered /\ Squash.Pod # "") => Squash.Pod \in Range(offered["pod"])

C19_Witness ==
    /\ last.op = "choosePod"
    /\ flags.Container = "app"
    /\ ~flags.ChoosePod
    /\ Len(last.items) = 2
    /\ last.items[1].containers = <<SidecarContainer>>
    /\ last.items[2].containers = <<AppContainer, WorkerContainer>>
    /\ last.candidates = <<"p2">>
    /\ Squash.Pod = "p2"

====
